---- MODULE Spec2Model ----
(***************************************************************************)
(* Model of the TwinCAT project parser (scripts/wiki_generator/            *)
(* twincat_parser.py).                                                     *)
(*                                                                         *)
(* A text is a sequence of one-character strings.  The regular expressions *)
(* of the parser are computed character by character, with the greedy and  *)
(* lazy choices Python's re module makes.                                  *)
(*                                                                         *)
(*   Spec      the parser object: manifests, files on disk, parse_project  *)
(*   SpecDecl  the extraction functions applied to declaration texts       *)
(*   SpecFile  the functions that parse one source file                    *)
(*   SpecBump  the version bump script (.github/scripts/bump_version.py)   *)
(***************************************************************************)
EXTENDS Integers, Sequences, FiniteSets, TLC

VARIABLES
    manifests,       \* the *.tsproj files directly under project_root, in glob order
    disk,            \* the source files under project_root, in glob order
    included_files,  \* self.included_files
    pous,            \* self.pous
    duts,            \* self.duts
    gvls,            \* self.gvls
    enumerated,      \* pou_files / dut_files / gvl_files of the last parse_project
    returned,        \* the dicts parse_project has returned, as they were at the return
    raised,          \* TRUE when an exception escaped from parse_project
    src,             \* the structure a declaration text was written from
    text,            \* the declaration text handed to an extraction function
    call,            \* the extraction function called last
    result,          \* what that call returned
    version_file,    \* the VERSION file: <<>> when missing, <<its text>> otherwise
    environ,         \* os.environ of the version bump script
    entered,         \* how the version bump script was entered last, and the
                     \* VERSION file as it was then
    status,          \* what that gave: the exit status of main, or what
                     \* bump_version returned or raised
    bump_runs        \* how many times the script has been entered

vars == <<manifests, disk, included_files, pous, duts, gvls, enumerated,
          returned, raised, src, text, call, result,
          version_file, environ, entered, status, bump_runs>>

scanVars == <<manifests, disk, included_files, pous, duts, gvls, enumerated,
              returned, raised>>

declVars == <<src, text, call, result>>

bumpVars == <<version_file, environ, entered, status, bump_runs>>

----------------------------------------------------------------------------
(* Characters *)

UpperChars == <<"A","B","C","D","E","F","G","H","I","J","K","L","M",
                "N","O","P","Q","R","S","T","U","V","W","X","Y","Z">>

LowerChars == <<"a","b","c","d","e","f","g","h","i","j","k","l","m",
                "n","o","p","q","r","s","t","u","v","w","x","y","z">>

DigitChars == {"0","1","2","3","4","5","6","7","8","9"}

Letters == {UpperChars[i] : i \in 1..26} \cup {LowerChars[i] : i \in 1..26}

OtherChars == {" ", "\n", ":", "=", ";", "/", "\\", "(", ")", "*", "_", ".", ","}

Chars == Letters \cup DigitChars \cup OtherChars

\* str.lower(), one character
ToLower == [c \in Chars |->
              IF \E i \in 1..26 : UpperChars[i] = c
              THEN LowerChars[CHOOSE i \in 1..26 : UpperChars[i] = c]
              ELSE c]

\* str.upper(), one character
ToUpper == [c \in Chars |->
              IF \E i \in 1..26 : LowerChars[i] = c
              THEN UpperChars[CHOOSE i \in 1..26 : LowerChars[i] = c]
              ELSE c]

Lower(s) == [i \in 1..Len(s) |-> ToLower[s[i]]]

Upper(s) == [i \in 1..Len(s) |-> ToUpper[s[i]]]

\* \s of the re module, within Chars
Whitespace == {" ", "\n"}

\* \w of the re module, within Chars
WordChars == Letters \cup DigitChars \cup {"_"}

----------------------------------------------------------------------------
(* String primitives.  Positions are 1-based; Len(t)+1 is the end. *)

\* the first position from s on, up to n, where hit (a function on s..n) is
\* TRUE; n + 1 when there is none
FirstFrom(s, n, hit) ==
    IF s > n THEN n + 1
    ELSE CHOOSE j \in s..(n + 1) :
            /\ j = n + 1 \/ hit[j]
            /\ \A k \in s..(j - 1) : ~hit[k]

\* a position found up to n, 0 for none
OrZero(j, n) == IF j > n THEN 0 ELSE j

\* \s* (greedy) from position i: the first position that is not whitespace
SkipWs(t, i) ==
    IF i > Len(t) THEN i
    ELSE FirstFrom(i, Len(t), [j \in i..Len(t) |-> t[j] \notin Whitespace])

\* [^stop]* (greedy) from position i: the first position holding a stop character
ScanTo(t, i, stop) ==
    IF i > Len(t) THEN i
    ELSE FirstFrom(i, Len(t), [j \in i..Len(t) |-> t[j] \in stop])

\* \w* (greedy) from position i
WordEnd(t, i) ==
    IF i > Len(t) THEN i
    ELSE FirstFrom(i, Len(t), [j \in i..Len(t) |-> t[j] \notin WordChars])

\* the literal lit stands at position i of t
LitAt(t, i, lit) ==
    /\ i >= 1
    /\ i + Len(lit) - 1 <= Len(t)
    /\ \A k \in 1..Len(lit) : t[i + k - 1] = lit[k]

\* the literal lit stands at position i of t, re.IGNORECASE
LitAtCI(t, i, lit) ==
    /\ i >= 1
    /\ i + Len(lit) - 1 <= Len(t)
    /\ \A k \in 1..Len(lit) : ToLower[t[i + k - 1]] = ToLower[lit[k]]

\* (.*?)lit with re.DOTALL | re.IGNORECASE: the first position >= i where lit
\* stands, 0 when there is none
FindCI(t, i, lit) ==
    OrZero(FirstFrom(i, Len(t) - Len(lit) + 1,
                     [j \in i..(Len(t) - Len(lit) + 1) |-> LitAtCI(t, j, lit)]),
           Len(t) - Len(lit) + 1)

\* t[i:j] of Python with 1-based i and exclusive j
Slice(t, i, j) == IF j <= i THEN <<>> ELSE SubSeq(t, i, j - 1)

\* str.lstrip()
LStrip(s) == Slice(s, SkipWs(s, 1), Len(s) + 1)

\* str.rstrip()
RStrip(s) ==
    SubSeq(s, 1, CHOOSE j \in 0..Len(s) :
                    /\ j = 0 \/ s[j] \notin Whitespace
                    /\ \A k \in (j + 1)..Len(s) : s[k] \in Whitespace)

\* str.strip()
Strip(s) == RStrip(LStrip(s))

\* str.startswith
StartsWith(s, prefix) == LitAt(s, 1, prefix)

\* line.split(':', 1)[1] for a line that contains a colon
AfterFirstColon(line) ==
    Slice(line, ScanTo(line, 1, {":"}) + 1, Len(line) + 1)

RECURSIVE Concat(_)
\* the concatenation of a sequence of sequences
Concat(ss) == IF ss = <<>> THEN <<>> ELSE Head(ss) \o Concat(Tail(ss))

----------------------------------------------------------------------------
(* Literals of the parser *)

KW_VAR == <<"V","A","R">>
KW_VAR_INPUT == <<"V","A","R","_","I","N","P","U","T">>
KW_VAR_OUTPUT == <<"V","A","R","_","O","U","T","P","U","T">>
KW_VAR_GLOBAL == <<"V","A","R","_","G","L","O","B","A","L">>
KW_END_VAR == <<"E","N","D","_","V","A","R">>
KW_STRUCT == <<"S","T","R","U","C","T">>
KW_END_STRUCT == <<"E","N","D","_","S","T","R","U","C","T">>
KW_TYPE == <<"T","Y","P","E">>
KW_ENUM == <<"E","N","U","M">>
\* the opening marker of a kind of block
KeywordOf(kind) ==
    CASE kind = "VAR_INPUT"  -> KW_VAR_INPUT
      [] kind = "VAR_OUTPUT" -> KW_VAR_OUTPUT
      [] kind = "VAR"        -> KW_VAR
      [] kind = "VAR_GLOBAL" -> KW_VAR_GLOBAL

LineMarker == <<"/","/">>
BlockOpen == <<"(","*">>
BlockClose == <<"*",")">>
LBL_purpose == <<"p","u","r","p","o","s","e",":">>
LBL_description == <<"d","e","s","c","r","i","p","t","i","o","n",":">>
LBL_author == <<"a","u","t","h","o","r",":">>
LBL_version == <<"v","e","r","s","i","o","n",":">>
LBL_date == <<"d","a","t","e",":">>

----------------------------------------------------------------------------
\* The field pattern (var_pattern, member_pattern):
\*   (\w+)\s*:\s*([^;:=]+)(?:\s*:=\s*([^;]+))?\s*;?\s*(?://\s*(.*))?

NoMatch == [ok |-> FALSE]

TypeStops == {";", ":", "="}

DefaultStops == {";"}

Assign == <<":", "=">>

\* \s*(X+) from position c, where X excludes the characters of stop and u is
\* where the greedy \s* ends: X+ starts at u, or \s* gives its last
\* whitespace character back to X+.  0 when X+ cannot match.
GroupStartAfter(t, c, u, stop) ==
    IF u <= Len(t) /\ t[u] \notin stop THEN u
    ELSE IF u > c THEN u - 1
    ELSE 0

GroupStart(t, c, stop) == GroupStartAfter(t, c, SkipWs(t, c), stop)

\* (?://\s*(.*))? at position p3, ending the match: m holds groups 1 to 3
MatchComment(t, m, p3) ==
    IF LitAt(t, p3, LineMarker)
    THEN [m EXCEPT !.g4 = Slice(t, SkipWs(t, p3 + 2), ScanTo(t, SkipWs(t, p3 + 2), {"\n"})),
                   !.end = ScanTo(t, SkipWs(t, p3 + 2), {"\n"})]
    ELSE [m EXCEPT !.end = p3]

\* ;? at position p1, then \s*
MatchSemicolon(t, m, p1) ==
    MatchComment(t, m, SkipWs(t, IF p1 <= Len(t) /\ t[p1] = ";" THEN p1 + 1 ELSE p1))

\* group 3 from g3s (0: the optional group does not match) to g3e, then \s*
MatchDefaultTo(t, m, g3s, g3e) ==
    MatchSemicolon(t, [m EXCEPT !.g3 = IF g3s = 0 THEN <<>> ELSE Slice(t, g3s, g3e)],
                   SkipWs(t, g3e))

\* (?:\s*:=\s*([^;]+))? at position g2e, where group 2 ended
MatchDefaultFrom(t, m, g2e, g3s) ==
    MatchDefaultTo(t, m, g3s, IF g3s = 0 THEN g2e ELSE ScanTo(t, g3s + 1, DefaultStops))

MatchDefault(t, m, g2e) ==
    MatchDefaultFrom(t, m, g2e,
                     IF LitAt(t, g2e, Assign) THEN GroupStart(t, g2e + 2, DefaultStops) ELSE 0)

\* ([^;:=]+) from g2s to g2e
MatchTypeTo(t, m, g2s, g2e) == MatchDefault(t, [m EXCEPT !.g2 = Slice(t, g2s, g2e)], g2e)

MatchTypeFrom(t, m, g2s) ==
    IF g2s = 0 THEN NoMatch ELSE MatchTypeTo(t, m, g2s, ScanTo(t, g2s + 1, TypeStops))

\* \s*:\s* after the name: k is where the whitespace after the name ends
MatchColon(t, m, k) ==
    IF k <= Len(t) /\ t[k] = ":" THEN MatchTypeFrom(t, m, GroupStart(t, k + 1, TypeStops))
    ELSE NoMatch

\* (\w+) from s to e
MatchName(t, s, e) ==
    MatchColon(t, [ok |-> TRUE, g1 |-> Slice(t, s, e), g2 |-> <<>>, g3 |-> <<>>,
                   g4 |-> <<>>, end |-> e],
               SkipWs(t, e))

\* re.match of the field pattern at position s of t: the four groups (<<>>
\* for a group that did not take part) and the position where the match ends
MatchAt(t, s) ==
    IF s <= Len(t) /\ t[s] \in WordChars THEN MatchName(t, s, WordEnd(t, s)) ELSE NoMatch

RECURSIVE FindIter(_, _)

\* the match found at position s, and the matches after it
FindIterStep(block, s) ==
    IF s > Len(block) THEN <<>>
    ELSE <<MatchAt(block, s)>> \o FindIter(block, MatchAt(block, s).end)

\* re.finditer(var_pattern, block): the matches from position s on, left to
\* right, each search starting where the previous match ended
FindIter(block, s) ==
    FindIterStep(block,
                 FirstFrom(s, Len(block), [j \in s..Len(block) |-> MatchAt(block, j).ok]))

\* the dict built from one match (group 3 and group 4 are '' when absent)
FieldOf(m) ==
    [name    |-> Strip(m.g1),
     type    |-> Strip(m.g2),
     default |-> Strip(m.g3),
     comment |-> Strip(m.g4)]

SkippedNames == {KW_VAR, KW_END_VAR, KW_VAR_INPUT, KW_VAR_OUTPUT}

\* the dicts of the matches
FieldsOf(matches) == [i \in 1..Len(matches) |-> FieldOf(matches[i])]

\* the loop of _extract_variables over the matches of one block
BlockVariables(block) ==
    SelectSeq(FieldsOf(FindIter(block, 1)),
              LAMBDA f : f.name # <<>> /\ Upper(f.name) \notin SkippedNames)

\* the loop of _extract_struct_members over the matches
StructVariables(block) ==
    SelectSeq(FieldsOf(FindIter(block, 1)), LAMBDA f : f.name # <<>>)

----------------------------------------------------------------------------
(* The block patterns, re.DOTALL | re.IGNORECASE *)

\* VAR(?:\s|$) at position s: the positions after the opening, in the order
\* the alternatives are tried
PlainVarOpenAfter(t, a) ==
    (IF a <= Len(t) /\ t[a] \in Whitespace THEN <<a + 1>> ELSE <<>>)
    \o (IF a = Len(t) + 1 \/ (a = Len(t) /\ t[a] = "\n") THEN <<a>> ELSE <<>>)

PlainVarOpen(t, s) ==
    IF LitAtCI(t, s, KW_VAR) THEN PlainVarOpenAfter(t, s + Len(KW_VAR)) ELSE <<>>

\* the opening marker at position s; plain selects VAR(?:\s|$)
OpenAt(t, s, kw, plain) ==
    IF plain THEN PlainVarOpen(t, s)
    ELSE IF LitAtCI(t, s, kw) THEN <<s + Len(kw)>> ELSE <<>>

RECURSIVE BodyFrom(_, _)

BodyTo(t, opens, j) ==
    IF j # 0 THEN <<Head(opens), j>> ELSE BodyFrom(t, Tail(opens))

\* the first alternative of the opening after which END_VAR is found:
\* <<start of the body, position of END_VAR>>, <<>> when the match fails at s
BodyFrom(t, opens) ==
    IF opens = <<>> THEN <<>>
    ELSE BodyTo(t, opens, FindCI(t, Head(opens), KW_END_VAR))

RECURSIVE FindAllBlocks(_, _, _, _)

\* the body b of the match found, and the bodies after it
FindAllBlocksAt(t, kw, plain, b) ==
    <<Slice(t, b[1], b[2])>> \o FindAllBlocks(t, b[2] + Len(KW_END_VAR), kw, plain)

\* s is where the pattern matches next, Len(t) + 1 when it does not
FindAllBlocksStep(t, s, kw, plain) ==
    IF s > Len(t) THEN <<>>
    ELSE FindAllBlocksAt(t, kw, plain, BodyFrom(t, OpenAt(t, s, kw, plain)))

\* re.findall(r'<kw>(.*?)END_VAR', text): the bodies, left to right, without
\* overlap
FindAllBlocks(t, s, kw, plain) ==
    FindAllBlocksStep(t,
                      FirstFrom(s, Len(t),
                                [j \in s..Len(t) |->
                                   BodyFrom(t, OpenAt(t, j, kw, plain)) # <<>>]),
                      kw, plain)

\* the three findall calls of a non-global source and the one of a global
\* source
FindAllOf(t, pattern) ==
    FindAllBlocks(t, 1, KeywordOf(pattern), pattern = "VAR")

\* var_blocks with the plain VAR blocks collected first
VarBlocks_PlainFirst(t, is_global) ==
    Concat([i \in 1..(IF is_global THEN 1 ELSE 3) |->
              FindAllOf(t, IF is_global THEN "VAR_GLOBAL"
                           ELSE <<"VAR", "VAR_INPUT", "VAR_OUTPUT">>[i])])

\* var_blocks of _extract_variables
VarBlocks(t, is_global) ==
    Concat([i \in 1..(IF is_global THEN 1 ELSE 3) |->
              FindAllOf(t, IF is_global THEN "VAR_GLOBAL"
                           ELSE <<"VAR_INPUT", "VAR_OUTPUT", "VAR">>[i])])

\* the loop of _extract_variables over var_blocks
VariablesOf(var_blocks) ==
    Concat([i \in 1..Len(var_blocks) |-> BlockVariables(var_blocks[i])])

\* TwinCATParser._extract_variables
ExtractVariables(t, is_global) == VariablesOf(VarBlocks(t, is_global))

\* STRUCT\s*(.*?)END_STRUCT matches at position s
StructAt(t, s) ==
    /\ LitAtCI(t, s, KW_STRUCT)
    /\ FindCI(t, SkipWs(t, s + Len(KW_STRUCT)), KW_END_STRUCT) # 0

\* s is where the pattern matches first, Len(t) + 1 when it does not
StructSearchFrom(t, s) ==
    IF s > Len(t) THEN <<>>
    ELSE <<SkipWs(t, s + Len(KW_STRUCT)),
           FindCI(t, SkipWs(t, s + Len(KW_STRUCT)), KW_END_STRUCT)>>

\* re.search(r'STRUCT\s*(.*?)END_STRUCT', text): <<start of group 1, position
\* of END_STRUCT>> of the first match, <<>> when there is none
StructSearch(t, s) ==
    StructSearchFrom(t, FirstFrom(s, Len(t), [j \in s..Len(t) |-> StructAt(t, j)]))

StructMembersOf(t, struct_match) ==
    IF struct_match = <<>> THEN <<>>
    ELSE StructVariables(Slice(t, struct_match[1], struct_match[2]))

\* TwinCATParser._extract_struct_members
ExtractStructMembers(t) == StructMembersOf(t, StructSearch(t, 1))

----------------------------------------------------------------------------
(* Documentation *)

RECURSIVE FindAllComments(_, _)

\* group 1 from p to the end of the line e
CommentTo(t, p, e) == <<Slice(t, p, e)>> \o FindAllComments(t, e)

\* \s* after the marker ends at p
CommentFrom(t, p) == CommentTo(t, p, ScanTo(t, p, {"\n"}))

\* s is where the marker stands next, Len(t) + 1 when there is none
FindAllCommentsStep(t, s) ==
    IF s > Len(t) THEN <<>> ELSE CommentFrom(t, SkipWs(t, s + 2))

\* re.findall(r'//\s*(.*)', text)
FindAllComments(t, s) ==
    FindAllCommentsStep(t,
                        FirstFrom(s, Len(t), [j \in s..Len(t) |-> LitAt(t, j, LineMarker)]))

\* (.*?)\s*\*\) from position j: the first position from which only
\* whitespace precedes the closing marker, 0 when there is none
LazyClose(t, j) ==
    OrZero(FirstFrom(j, Len(t),
                     [k \in j..Len(t) |-> LitAt(t, SkipWs(t, k), BlockClose)]), Len(t))

\* \(\*\s*(.*?)\s*\*\) matches at position s
CommentBlockAt(t, s) ==
    /\ LitAt(t, s, BlockOpen)
    /\ LazyClose(t, SkipWs(t, s + 2)) # 0

\* s is where the pattern matches first, Len(t) + 1 when it does not
CommentBlockFrom(t, s) ==
    IF s > Len(t) THEN <<>>
    ELSE <<Slice(t, SkipWs(t, s + 2), LazyClose(t, SkipWs(t, s + 2)))>>

\* comment_blocks[0] of re.findall(r'\(\*\s*(.*?)\s*\*\)', text, re.DOTALL),
\* as <<group 1>>; <<>> when comment_blocks is empty
FirstCommentBlock(t, s) ==
    CommentBlockFrom(t, FirstFrom(s, Len(t), [j \in s..Len(t) |-> CommentBlockAt(t, j)]))

EmptyDoc ==
    [description |-> <<>>, author |-> <<>>, version |-> <<>>, date |-> <<>>,
     comments |-> <<>>]

\* the if / elif chain of the loop over comment_lines
ApplyLabelTo(doc_info, line_lower, value) ==
    IF StartsWith(line_lower, LBL_purpose) \/ StartsWith(line_lower, LBL_description)
    THEN [doc_info EXCEPT !.description = value]
    ELSE IF StartsWith(line_lower, LBL_author)
    THEN [doc_info EXCEPT !.author = value]
    ELSE IF StartsWith(line_lower, LBL_version)
    THEN [doc_info EXCEPT !.version = value]
    ELSE IF StartsWith(line_lower, LBL_date)
    THEN [doc_info EXCEPT !.date = value]
    ELSE doc_info

\* one iteration of the loop over comment_lines
ApplyLabel(doc_info, line) ==
    ApplyLabelTo(doc_info, Strip(Lower(line)), Strip(AfterFirstColon(line)))

RECURSIVE ApplyLabels(_, _)
\* the loop over comment_lines
ApplyLabels(doc_info, lines) ==
    IF lines = <<>> THEN doc_info
    ELSE ApplyLabels(ApplyLabel(doc_info, Head(lines)), Tail(lines))

\* the block-comment step filling description only when no label line has
ApplyCommentBlock_KeepLabel(doc_info, comment_blocks) ==
    IF comment_blocks # <<>> /\ doc_info.description = <<>>
    THEN [doc_info EXCEPT !.description = Strip(comment_blocks[1])]
    ELSE doc_info

\* the block-comment step starting from a fresh record
ApplyCommentBlock_Fresh(doc_info, comment_blocks) ==
    IF comment_blocks # <<>>
    THEN [EmptyDoc EXCEPT !.description = Strip(comment_blocks[1]),
                          !.comments = doc_info.comments]
    ELSE doc_info

\* the block-comment step of _extract_documentation
ApplyCommentBlock(doc_info, comment_blocks) ==
    IF comment_blocks # <<>>
    THEN [doc_info EXCEPT !.description = Strip(comment_blocks[1])]
    ELSE doc_info

\* _extract_documentation after comment_lines is found
DocumentationOf(t, comment_lines) ==
    ApplyCommentBlock(ApplyLabels([EmptyDoc EXCEPT !.comments = comment_lines],
                                  comment_lines),
                      FirstCommentBlock(t, 1))

\* TwinCATParser._extract_documentation
ExtractDocumentation(t) == DocumentationOf(t, FindAllComments(t, 1))

----------------------------------------------------------------------------
(* Declaration texts.  A text is written from a structure (src), so that   *)
(* what an extraction function returns can be compared with what the text  *)
(* declares.                                                               *)

MaxBlocks == 2      \* blocks of a text of several blocks
MaxDecls == 2       \* declarations of one of those blocks
MaxLines == 3       \* lines of a text of one block
MaxDocLines == 3    \* lines of a documentation text

RECURSIVE SeqsUpTo(_, _)
\* the sequences over S of length at most n
SeqsUpTo(S, n) ==
    IF n = 0 THEN {<<>>}
    ELSE LET shorter == SeqsUpTo(S, n - 1)
         IN  shorter \cup {Append(q, x) : q \in {r \in shorter : Len(r) = n - 1}, x \in S}

NL == <<"\n">>

FieldNames == <<"a","b","e","f","g","h","m","n","p","q","r","s">>

\* the name of the i-th declaration of a text
NameOf(i) == <<FieldNames[i]>>

T_INT == <<"I","N","T">>
T_DINT == <<"D","I","N","T">>
V_10 == <<"1","0">>
C_cnt == <<"c","n","t">>

BlockKinds == {"VAR_INPUT", "VAR_OUTPUT", "VAR", "VAR_GLOBAL"}

ContainerKinds == BlockKinds \cup {"STRUCT", "NONE"}

\* the forms of a line inside a block
DeclForms == {"plain", "full", "nosemi", "emptycmt"}

LineForms == DeclForms \cup {"note", "about"}

\* the line of form f that declares (or follows the declaration of) name nm
LineText(f, nm) ==
    CASE f = "plain"    -> <<" ">> \o nm \o <<" ", ":", " ">> \o T_INT \o <<";">>
      [] f = "full"     -> <<" ">> \o nm \o <<" ", ":", " ">> \o T_DINT
                           \o <<" ", ":", "=", " ">> \o V_10
                           \o <<";", " ", "/", "/", " ">> \o C_cnt
      [] f = "nosemi"   -> <<" ">> \o nm \o <<" ", ":", " ">> \o T_INT
      [] f = "emptycmt" -> <<" ">> \o nm \o <<" ", ":", " ">> \o T_INT
                           \o <<";", " ", "/", "/">>
      [] f = "note"     -> <<" ", "/", "/", " ", "u", "n", "i", "t", ":", " ", "m", "m">>
      [] f = "about"    -> <<" ", "/", "/", " ", "s", "e", "e">>

\* the Field that a line of form f declaring name nm stands for
DeclaredField(f, nm) ==
    [name    |-> nm,
     type    |-> IF f = "full" THEN T_DINT ELSE T_INT,
     default |-> IF f = "full" THEN V_10 ELSE <<>>,
     comment |-> IF f = "full" THEN C_cnt ELSE <<>>]

\* the lines, each followed by a newline
LinesText(lines) ==
    Concat([i \in 1..Len(lines) |-> LineText(lines[i], NameOf(i)) \o NL])

\* a text of one container holding the lines
ContainerText(kind, lines) ==
    CASE kind = "NONE"   -> Strip(LinesText(lines))
      [] kind = "STRUCT" -> KW_TYPE \o <<" ", "S", " ", ":">> \o NL \o KW_STRUCT \o NL
                            \o LinesText(lines) \o KW_END_STRUCT \o NL
                            \o <<"E","N","D","_">> \o KW_TYPE
      [] OTHER           -> KeywordOf(kind) \o NL \o LinesText(lines) \o KW_END_VAR

RECURSIVE DeclsBefore(_, _)
\* the number of declarations in the first i blocks
DeclsBefore(blocks, i) ==
    IF i = 0 THEN 0 ELSE DeclsBefore(blocks, i - 1) + blocks[i].n

\* the declarations of block i, all of the plain form
BlockLines(blocks, i) ==
    Concat([j \in 1..blocks[i].n |->
              LineText("plain", NameOf(DeclsBefore(blocks, i - 1) + j)) \o NL])

\* a text of several blocks, one after the other
BlocksText(blocks) ==
    Concat([i \in 1..Len(blocks) |->
              (IF i = 1 THEN <<>> ELSE NL)
              \o KeywordOf(blocks[i].kind) \o NL \o BlockLines(blocks, i) \o KW_END_VAR])

DocForms == {"author", "author_lc", "descr", "purpose", "version", "date",
             "empty", "plain", "block", "block2"}

D_Jo == <<"J","o">>
D_Al == <<"A","l">>
D_sh == <<"s","h">>
D_pu == <<"p","u">>
D_1_0 == <<"1",".","0">>
D_2024 == <<"2","0","2","4">>
D_long_form == <<"l","o","n","g"," ","f","o","r","m">>
D_second == <<"s","e","c","o","n","d">>

\* a line of a documentation text
DocLineText(f) ==
    CASE f = "author"    -> <<"/","/"," ","A","u","t","h","o","r",":"," ">> \o D_Jo
      [] f = "author_lc" -> <<"/","/","a","u","t","h","o","r",":"," "," ">> \o D_Al \o <<" ">>
      [] f = "descr"     -> <<"/","/"," ","D","e","s","c","r","i","p","t","i","o","n",":"," ">> \o D_sh
      [] f = "purpose"   -> <<"/","/"," ","P","U","R","P","O","S","E",":">> \o D_pu
      [] f = "version"   -> <<"/","/"," ","V","e","r","s","i","o","n",":"," ">> \o D_1_0
      [] f = "date"      -> <<"/","/"," ","D","a","t","e",":"," ">> \o D_2024
      [] f = "empty"     -> <<"/","/">>
      [] f = "plain"     -> <<"/","/"," ","n","o","t","e">>
      [] f = "block"     -> <<"(","*"," ">> \o D_long_form \o <<" ","*",")">>
      [] f = "block2"    -> <<"(","*","\n"," ">> \o D_second \o <<"\n","*",")">>

\* the label a documentation line carries, "" when it carries none
DocLabel(f) ==
    CASE f \in {"author", "author_lc"} -> "author"
      [] f \in {"descr", "purpose"}    -> "description"
      [] f = "version"                 -> "version"
      [] f = "date"                    -> "date"
      [] OTHER                         -> ""

\* the value written after the label, or inside the block comment
DocValue(f) ==
    CASE f = "author"    -> D_Jo
      [] f = "author_lc" -> D_Al
      [] f = "descr"     -> D_sh
      [] f = "purpose"   -> D_pu
      [] f = "version"   -> D_1_0
      [] f = "date"      -> D_2024
      [] f = "block"     -> D_long_form
      [] f = "block2"    -> D_second
      [] OTHER           -> <<>>

DocText(lines) ==
    Concat([i \in 1..Len(lines) |-> (IF i = 1 THEN <<>> ELSE NL) \o DocLineText(lines[i])])

\* the words a line may have where a name stands: the block markers, two of
\* them in lower case, and a name
NameWords == {KW_VAR, KW_VAR_INPUT, KW_VAR_OUTPUT, KW_VAR_GLOBAL, KW_END_VAR,
              Lower(KW_VAR_GLOBAL), Lower(KW_END_VAR), <<"a">>}

\* a line with the word where a name stands: a declaration, or a line
\* comment; "before": the line comment stands before the container, which
\* holds a declaration
NameForms == {"decl", "comment", "before"}

NameLineText(f, word) ==
    CASE f = "decl"    -> <<" ">> \o word \o <<" ", ":", " ">> \o T_INT \o <<";">>
      [] f = "comment" -> <<" ", "/", "/", " ">> \o word \o <<":", " ", "x">>

\* a container holding the line
NameContainer(kind, line) ==
    IF kind = "STRUCT"
    THEN KW_STRUCT \o NL \o line \o NL \o KW_END_STRUCT
    ELSE KeywordOf(kind) \o NL \o line \o NL \o KW_END_VAR

\* a text of one container holding that line, or following it
NameText(kind, f, word) ==
    IF f = "before"
    THEN Strip(NameLineText("comment", word)) \o NL
         \o NameContainer(kind, LineText("plain", NameOf(1)))
    ELSE NameContainer(kind, NameLineText(f, word))

\* the structures texts are written from
Sources ==
    {[family |-> "blocks", blocks |-> bs] :
        bs \in SeqsUpTo([kind : BlockKinds, n : 0..MaxDecls], MaxBlocks)}
    \cup {[family |-> "lines", kind |-> k, lines |-> ls] :
        k \in ContainerKinds, ls \in SeqsUpTo(LineForms, MaxLines)}
    \cup {[family |-> "doc", lines |-> ls] : ls \in SeqsUpTo(DocForms, MaxDocLines)}
    \cup {[family |-> "names", kind |-> k, form |-> f, word |-> w] :
        k \in BlockKinds \cup {"STRUCT"}, f \in NameForms, w \in NameWords}

\* the declaration text of a source file (stripped, as the callers strip it)
TextOf(s) ==
    CASE s.family = "blocks" -> BlocksText(s.blocks)
      [] s.family = "lines"  -> ContainerText(s.kind, s.lines)
      [] s.family = "doc"    -> DocText(s.lines)
      [] s.family = "names"  -> NameText(s.kind, s.form, s.word)

NoCall == [fn |-> "none", is_global |-> FALSE]

\* the version bump script has not been entered
NotEntered == [fn |-> "none"]

\* no environment, as the parser reads none
NoEnviron == [GITHUB_EVENT_NAME |-> "", GITHUB_REPOSITORY |-> "",
              GITHUB_EVENT_PULL_REQUEST_HEAD_REPO_FULL_NAME |-> ""]

\* the version bump script takes no part
NoBump ==
    /\ version_file = <<>>
    /\ environ = NoEnviron
    /\ entered = NotEntered
    /\ status = [outcome |-> "none"]
    /\ bump_runs = 0

----------------------------------------------------------------------------
(* SpecDecl: the extraction functions applied to a declaration text *)

InitDecl ==
    /\ src \in Sources
    /\ text = TextOf(src)
    /\ call = NoCall
    /\ result = <<>>
    /\ manifests = <<>>
    /\ disk = <<>>
    /\ included_files = <<>>
    /\ pous = <<>>
    /\ duts = <<>>
    /\ gvls = <<>>
    /\ enumerated = [POU |-> <<>>, DUT |-> <<>>, GVL |-> <<>>]
    /\ returned = <<>>
    /\ raised = FALSE
    /\ NoBump

\* variables = self._extract_variables(declaration_text, is_global)
CallExtractVariables(is_global) ==
    /\ src.family # "none"
    /\ call = NoCall
    /\ call' = [fn |-> "_extract_variables", is_global |-> is_global]
    /\ result' = ExtractVariables(text, is_global)
    /\ UNCHANGED <<src, text>>
    /\ UNCHANGED scanVars
    /\ UNCHANGED bumpVars

\* doc_info = self._extract_documentation(declaration_text)
CallExtractDocumentation ==
    /\ src.family # "none"
    /\ call = NoCall
    /\ call' = [fn |-> "_extract_documentation", is_global |-> FALSE]
    /\ result' = ExtractDocumentation(text)
    /\ UNCHANGED <<src, text>>
    /\ UNCHANGED scanVars
    /\ UNCHANGED bumpVars

\* members = self._extract_struct_members(declaration_text)
CallExtractStructMembers ==
    /\ src.family # "none"
    /\ call = NoCall
    /\ call' = [fn |-> "_extract_struct_members", is_global |-> FALSE]
    /\ result' = ExtractStructMembers(text)
    /\ UNCHANGED <<src, text>>
    /\ UNCHANGED scanVars
    /\ UNCHANGED bumpVars

NextDecl ==
    \/ \E is_global \in BOOLEAN : CallExtractVariables(is_global)
    \/ CallExtractDocumentation
    \/ CallExtractStructMembers

SpecDecl == InitDecl /\ [][NextDecl]_vars

----------------------------------------------------------------------------
(* What a text declares *)

\* the Fields declared by the blocks of the given kind, in text order
DeclaredIn(blocks, kind) ==
    Concat([i \in 1..Len(blocks) |->
              IF blocks[i].kind = kind
              THEN [j \in 1..blocks[i].n |->
                      DeclaredField("plain", NameOf(DeclsBefore(blocks, i - 1) + j))]
              ELSE <<>>])

\* the Fields declared by the lines of a container, in text order
DeclaredByLines(lines) ==
    Concat([i \in 1..Len(lines) |->
              IF lines[i] \in DeclForms
              THEN <<DeclaredField(lines[i], NameOf(i))>>
              ELSE <<>>])

\* the call scans blocks of the given kind
Scans(c, kind) ==
    /\ c.fn = "_extract_variables"
    /\ IF c.is_global THEN kind = "VAR_GLOBAL"
       ELSE kind \in {"VAR_INPUT", "VAR_OUTPUT", "VAR"}

\* the positions of the documentation lines that carry the label
Labelled(lines, label) == {i \in 1..Len(lines) : DocLabel(lines[i]) = label}

\* the positions of the block comments of a documentation text
BlockLinesOf(lines) == {i \in 1..Len(lines) : lines[i] \in {"block", "block2"}}

Max(S) == CHOOSE x \in S : \A y \in S : y <= x

Min(S) == CHOOSE x \in S : \A y \in S : x <= y

----------------------------------------------------------------------------
(* Claims on the extraction functions *)

\* C4: for a non-global source, extract_fields returns the fields of the
\* VAR_INPUT blocks, then those of the VAR_OUTPUT blocks, then those of the
\* plain VAR blocks, each declared field exactly once.
C4_FieldsByBlockKind ==
    (/\ src.family = "blocks"
     /\ \A i \in 1..Len(src.blocks) : src.blocks[i].kind # "VAR_GLOBAL"
     /\ call = [fn |-> "_extract_variables", is_global |-> FALSE])
    => result = DeclaredIn(src.blocks, "VAR_INPUT")
                \o DeclaredIn(src.blocks, "VAR_OUTPUT")
                \o DeclaredIn(src.blocks, "VAR")

\* C5: a line `name : type := default; // comment` of a scanned block yields
\* a Field with exactly those four components, whatever the other lines of
\* the block are.
C5_FullLineExtracted ==
    (/\ src.family = "lines"
     /\ src.kind \in BlockKinds
     /\ Scans(call, src.kind))
    => \A i \in 1..Len(src.lines) :
          src.lines[i] = "full"
          => \E j \in 1..Len(result) : result[j] = DeclaredField("full", NameOf(i))

\* C6: when the text contains a block comment, description is the trimmed
\* text of the first block comment, whatever the label lines say.
C6_BlockCommentWins ==
    (/\ src.family = "doc"
     /\ call.fn = "_extract_documentation"
     /\ BlockLinesOf(src.lines) # {})
    => result.description = DocValue(src.lines[Min(BlockLinesOf(src.lines))])

\* C6, the case: a Description label line and a block comment in one text
C6_Witness ==
    /\ src.family = "doc"
    /\ call.fn = "_extract_documentation"
    /\ \E i, j \in 1..Len(src.lines) :
          /\ src.lines[i] = "descr"
          /\ src.lines[j] = "block"
          /\ i < j
    /\ result.description = D_long_form

\* C7: each of description, author, version, date of the line-comment pass is
\* the trimmed remainder after the first colon of the last line comment that
\* starts with its label.
C7_LastLabelLineWins ==
    (/\ src.family = "doc"
     /\ call.fn = "_extract_documentation")
    => /\ \A label \in {"author", "version", "date"} :
            Labelled(src.lines, label) # {}
            => result[label] = DocValue(src.lines[Max(Labelled(src.lines, label))])
       /\ (Labelled(src.lines, "description") # {} /\ BlockLinesOf(src.lines) = {})
            => result.description
               = DocValue(src.lines[Max(Labelled(src.lines, "description"))])

\* C8: extract_struct_members returns exactly the members declared inside the
\* STRUCT block, in declared order, with empty default and comment where none
\* is written, and the empty sequence when the text has no STRUCT block.
C8_StructMembersExact ==
    (/\ src.family = "lines"
     /\ call.fn = "_extract_struct_members")
    => result = IF src.kind = "STRUCT" THEN DeclaredByLines(src.lines) ELSE <<>>

\* the names of the Fields of a result
NamesOf(fields) == {fields[i].name : i \in 1..Len(fields)}

\* the markers of the regions
RegionKeywords == {KW_VAR, KW_VAR_INPUT, KW_VAR_OUTPUT, KW_VAR_GLOBAL, KW_END_VAR}

\* C14: no Field of extract_fields or extract_struct_members has an empty
\* name, and no Field of extract_fields is named, in whatever case, VAR,
\* VAR_INPUT, VAR_OUTPUT, VAR_GLOBAL or END_VAR.
C14_NoEmptyOrKeywordName ==
    /\ call.fn \in {"_extract_variables", "_extract_struct_members"}
       => <<>> \notin NamesOf(result)
    /\ call.fn = "_extract_variables"
       => \A nm \in NamesOf(result) : Upper(nm) \notin RegionKeywords

\* the number of declarations of a text of several blocks
DeclCount(blocks) == DeclsBefore(blocks, Len(blocks))

\* the kind of the block that holds the k-th declaration of the text
KindOfDecl(blocks, k) ==
    blocks[CHOOSE i \in 1..Len(blocks) :
              DeclsBefore(blocks, i - 1) < k /\ k <= DeclsBefore(blocks, i)].kind

\* the place of a kind in the order var_blocks is filled in
KindRank(kind) ==
    CASE kind = "VAR_INPUT"  -> 1
      [] kind = "VAR_OUTPUT" -> 2
      [] kind = "VAR"        -> 3

\* where the Field named nm stands first in a result
FirstIndex(fields, nm) == Min({i \in 1..Len(fields) : fields[i].name = nm})

\* a non-global call on a text of VAR, VAR_INPUT and VAR_OUTPUT blocks
LocalBlocksCall ==
    /\ src.family = "blocks"
    /\ \A i \in 1..Len(src.blocks) : src.blocks[i].kind # "VAR_GLOBAL"
    /\ call = [fn |-> "_extract_variables", is_global |-> FALSE]

Region(is_global) ==
    IF is_global THEN {"VAR_GLOBAL"} ELSE {"VAR_INPUT", "VAR_OUTPUT", "VAR"}

\* the text has no block of the region the call scans
NoBlockOfRegion ==
    CASE src.family = "blocks" ->
           \A i \in 1..Len(src.blocks) : src.blocks[i].kind \notin Region(call.is_global)
      [] src.family = "lines"  -> src.kind \notin Region(call.is_global)
      [] src.family = "doc"    -> TRUE
      [] OTHER                 -> FALSE

\* C20: for a text with no block of the selected region, the empty text
\* included, extract_fields returns the empty sequence.
C20_NoBlockNoFields ==
    (call.fn = "_extract_variables" /\ NoBlockOfRegion) => result = <<>>

\* the lines are declarations, with or without semicolon, and one of them
\* has none
SomeWithoutSemicolon(lines) ==
    /\ \A i \in 1..Len(lines) : lines[i] \in {"plain", "full", "nosemi"}
    /\ \E i \in 1..Len(lines) : lines[i] = "nosemi"

\* C23: a declaration line without its semicolon yields a Field with the
\* name and type written on it, and the other declaration lines of the
\* block, the following one in particular, yield the Fields they yield
\* without it.
C23_MissingSemicolonTolerated ==
    (/\ src.family = "lines"
     /\ src.kind \in BlockKinds
     /\ Scans(call, src.kind)
     /\ SomeWithoutSemicolon(src.lines))
    => \A i \in 1..Len(src.lines) :
          \E j \in 1..Len(result) : result[j] = DeclaredField(src.lines[i], NameOf(i))

\* the line comments a documentation text is written with: for each line
\* that is a line comment, what stands after the marker, trimmed
WrittenComments(lines) ==
    Concat([i \in 1..Len(lines) |->
              IF i \in BlockLinesOf(lines) THEN <<>>
              ELSE <<Strip(Slice(DocLineText(lines[i]), Len(LineMarker) + 1,
                                 Len(DocLineText(lines[i])) + 1))>>])

\* C24: the comment list has one entry for each line-comment marker, in the
\* order of the text; the entry is the text from the marker to the end of
\* that line, without the marker and trimmed on both sides, and holds nothing
\* of a following line.
C24_CommentPerMarker ==
    (/\ src.family = "doc"
     /\ call.fn = "_extract_documentation")
    => result.comments = WrittenComments(src.lines)

\* the call of a global-variable source
GlobalCall == call = [fn |-> "_extract_variables", is_global |-> TRUE]

\* C25: for a global-variable source the fields returned are those declared
\* inside VAR_GLOBAL ... END_VAR blocks, block after block in the order of
\* the text: a field declared in a VAR_INPUT, VAR_OUTPUT or plain VAR block
\* only, or outside any block, is not returned.
C25_GlobalBlocksOnly ==
    GlobalCall
    => /\ src.family = "blocks" => result = DeclaredIn(src.blocks, "VAR_GLOBAL")
       /\ (src.family \in {"lines", "names"} /\ src.kind # "VAR_GLOBAL")
          => result = <<>>

\* what the line-comment pass alone gives for a text
LinePassOf(comment_lines) ==
    ApplyLabels([EmptyDoc EXCEPT !.comments = comment_lines], comment_lines)

LinePass(t) == LinePassOf(FindAllComments(t, 1))

\* C26: the block-comment pass changes description only: whatever block
\* comments the text has, author, version, date and the comment list are what
\* the line-comment pass alone gives for the text; and each of description,
\* author, version and date is empty when the text has no line comment with
\* its label and, for description, no block comment.
C26_PassesIndependent ==
    (/\ src.family = "doc"
     /\ call.fn = "_extract_documentation")
    => /\ \A a \in {"author", "version", "date", "comments"} :
             result[a] = LinePass(text)[a]
       /\ \A label \in {"author", "version", "date"} :
             Labelled(src.lines, label) = {} => result[label] = <<>>
       /\ (Labelled(src.lines, "description") = {} /\ BlockLinesOf(src.lines) = {})
          => result.description = <<>>

\* a text with an author line and a block comment: the description is that
\* of the block comment, the author that of the line
C26_Witness ==
    /\ src.family = "doc"
    /\ call.fn = "_extract_documentation"
    /\ src.lines = <<"author", "block", "date">>
    /\ result.description = D_long_form
    /\ result.author = D_Jo
    /\ result.date = D_2024
    /\ result.version = <<>>

----------------------------------------------------------------------------
(* The project on disk *)

MaxManifests == 2   \* *.tsproj files under the project root
MaxRuns == 2        \* calls of parse_project on one parser

\* the characters in the order of their code points
AsciiOrder ==
    <<"\n", " ", "(", ")", "*", ",", ".", "/">>
    \o <<"0","1","2","3","4","5","6","7","8","9">>
    \o <<":", ";", "=">> \o UpperChars \o <<"\\", "_">> \o LowerChars

Ord == [c \in Chars |-> CHOOSE i \in 1..Len(AsciiOrder) : AsciiOrder[i] = c]

RECURSIVE StrLess(_, _)
\* a < b on Python strings
StrLess(a, b) ==
    IF b = <<>> THEN FALSE
    ELSE IF a = <<>> THEN TRUE
    ELSE IF Head(a) # Head(b) THEN Ord[Head(a)] < Ord[Head(b)]
    ELSE StrLess(Tail(a), Tail(b))

RECURSIVE SortedSeq(_)
\* sorted(S) for a set S of strings
SortedSeq(S) ==
    IF S = {} THEN <<>>
    ELSE LET least == CHOOSE x \in S : \A y \in S \ {x} : StrLess(x, y)
         IN  <<least>> \o SortedSeq(S \ {least})

Range(q) == {q[i] : i \in 1..Len(q)}

\* s.replace('\\', '/')
Normalize(s) == [i \in 1..Len(s) |-> IF s[i] = "\\" THEN "/" ELSE s[i]]

\* str.endswith
EndsWith(s, suffix) == LitAt(s, Len(s) - Len(suffix) + 1, suffix)

EXT_POU == <<".","T","c","P","O","U">>
EXT_DUT == <<".","T","c","D","U","T">>
EXT_GVL == <<".","T","c","G","V","L">>

UnitKinds == {"POU", "DUT", "GVL"}

ExtensionOf(kind) ==
    CASE kind = "POU" -> EXT_POU
      [] kind = "DUT" -> EXT_DUT
      [] kind = "GVL" -> EXT_GVL

\* the project-relative paths of the source files that may be on disk, as
\* str(p.relative_to(project_root)) gives them, in directory order
PATH_A == <<"A">> \o EXT_POU
PATH_B == <<"s", "\\", "B">> \o EXT_POU
PATH_C == <<"s", "/", "C">> \o EXT_DUT
PATH_G == <<"G">> \o EXT_GVL

CandidatePaths == <<PATH_A, PATH_B, PATH_C, PATH_G>>

\* the declaration text of a well-formed source file
DECL_OK ==
    <<"/","/"," ","A","u","t","h","o","r",":"," ","J","o","\n">>
    \o KW_VAR \o NL \o LineText("plain", NameOf(1)) \o NL \o KW_END_VAR

IMPL_OK == <<"a", " ", ":", "=", " ", "1", ";">>

\* what a source file may hold
\*   xml  "malformed": ET.parse raises ParseError
\*        "unreadable": ET.parse raises OSError (such as a directory of that name)
\*        "ok": well-formed; top tells whether the POU/DUT/GVL element is there
\*   name, special_func: the attribute of the top element, <<>> when absent
\*   declaration, implementation: the text of the element, <<>> when absent
FileContents ==
    {[xml |-> "malformed", top |-> FALSE, name |-> <<>>, special_func |-> <<>>,
      declaration |-> <<>>, implementation |-> <<>>],
     [xml |-> "unreadable", top |-> FALSE, name |-> <<>>, special_func |-> <<>>,
      declaration |-> <<>>, implementation |-> <<>>],
     [xml |-> "ok", top |-> FALSE, name |-> <<>>, special_func |-> <<>>,
      declaration |-> <<>>, implementation |-> <<>>],
     [xml |-> "ok", top |-> TRUE, name |-> <<"Main">>, special_func |-> <<>>,
      declaration |-> NL \o DECL_OK \o NL, implementation |-> IMPL_OK]}

\* the states of an attribute of the top-level element: absent, present and
\* empty, present with a value
NameStates == {<<>>, <<"">>, <<"Main">>}

SpecialFuncStates == {<<>>, <<"None">>, <<"FUNCTION_BLOCK">>, <<"FUNCTION">>}

\* declaration texts of data types: a structure, a structure with a member
\* of an enumeration type, an enumeration, an enumeration under a comment
\* that names it
DECL_STRUCT == ContainerText("STRUCT", <<"plain">>)

DECL_STRUCT_OF_ENUM ==
    KW_TYPE \o <<" ", "S", " ", ":">> \o NL \o KW_STRUCT \o NL
    \o <<" ", "a", " ", ":", " ", "E", "_">> \o KW_ENUM \o <<";">> \o NL
    \o KW_END_STRUCT \o NL \o <<"E","N","D","_">> \o KW_TYPE

DECL_ENUM ==
    KW_TYPE \o <<" ", "E", " ", ":">> \o NL
    \o <<"(", "\n", " ", "A", ",", "\n", " ", "B", "\n", ")", ";">> \o NL
    \o <<"E","N","D","_">> \o KW_TYPE

DECL_ENUM_NOTED == <<"/", "/", " ">> \o KW_ENUM \o NL \o DECL_ENUM

\* a declaration text under its author, version and date lines
DECL_DATED ==
    DocText(<<"author", "version", "date">>) \o NL
    \o KW_VAR_GLOBAL \o NL \o LineText("plain", NameOf(1)) \o NL \o KW_END_VAR

FileDeclarations ==
    {<<>>, NL \o DECL_OK \o NL, DECL_STRUCT, DECL_STRUCT_OF_ENUM, DECL_ENUM,
     DECL_ENUM_NOTED, DECL_DATED}

\* what one source file may hold, every state of its attributes included
FileStates ==
    FileContents
    \cup {[xml |-> "ok", top |-> TRUE, name |-> n, special_func |-> sf,
           declaration |-> d, implementation |-> IMPL_OK] :
          n \in NameStates, sf \in SpecialFuncStates, d \in FileDeclarations}

\* element.get(attribute, default)
GetAttr(attribute, default) == IF attribute = <<>> THEN default ELSE attribute[1]

\* the Include attributes manifests carry
INC_A == PATH_A
INC_B_BACK == <<"s", "\\", "B">> \o EXT_POU
INC_B_FWD == <<"s", "/", "B">> \o EXT_POU
INC_C_BACK == <<"s", "\\", "C">> \o EXT_DUT
INC_G == PATH_G
INC_X == <<"X">> \o EXT_POU

\* what a *.tsproj file may hold: compile lists its Compile elements (ns: in
\* the msbuild namespace; include: the Include attribute, <<>> when absent)
ManifestContents ==
    {[parses |-> FALSE, compile |-> <<>>, name |-> ""],
     [parses |-> TRUE, compile |-> <<>>, name |-> "Demo"],
     [parses |-> TRUE, name |-> "",
      compile |-> <<[ns |-> TRUE, include |-> INC_A],
                    [ns |-> FALSE, include |-> INC_X]>>],
     [parses |-> TRUE, name |-> "",
      compile |-> <<[ns |-> FALSE, include |-> INC_B_BACK],
                    [ns |-> TRUE, include |-> INC_B_FWD],
                    [ns |-> TRUE, include |-> INC_C_BACK],
                    [ns |-> FALSE, include |-> INC_G],
                    [ns |-> FALSE, include |-> <<>>]>>]}

\* FindAllCompile keeping the Include attributes as they are written
FindAllCompile_Raw(m, ns) ==
    [i \in 1..Len(SelectSeq(m.compile, LAMBDA c : c.ns = ns /\ c.include # <<>>)) |->
       SelectSeq(m.compile, LAMBDA c : c.ns = ns /\ c.include # <<>>)[i].include]

\* the Include attributes of the Compile elements of one manifest that
\* root.findall returns for the namespaced (ns) or the bare tag
FindAllCompile(m, ns) ==
    LET items == SelectSeq(m.compile, LAMBDA c : c.ns = ns)
        kept == SelectSeq(items, LAMBDA c : c.include # <<>>)
    IN  [i \in 1..Len(kept) |-> Normalize(kept[i].include)]

RECURSIVE Includes_StopAtFailure(_)
\* a loop over project_files that a manifest failing to parse ends
Includes_StopAtFailure(ms) ==
    IF ms = <<>> \/ ~Head(ms).parses THEN <<>>
    ELSE FindAllCompile(Head(ms), TRUE) \o FindAllCompile(Head(ms), FALSE)
         \o Includes_StopAtFailure(Tail(ms))

RECURSIVE Includes(_)
\* includes after the loop over project_files
Includes(ms) ==
    IF ms = <<>> THEN <<>>
    ELSE (IF Head(ms).parses
          THEN FindAllCompile(Head(ms), TRUE) \o FindAllCompile(Head(ms), FALSE)
          ELSE <<>>)
         \o Includes(Tail(ms))

\* TwinCATParser._get_project_included_files
GetProjectIncludedFiles(ms) == SortedSeq(Range(Includes(ms)))

\* list(self.project_root.glob("**/*" + extension)), as relative paths
Glob(d, kind) ==
    SelectSeq([i \in 1..Len(d) |-> d[i].path],
              LAMBDA p : EndsWith(p, ExtensionOf(kind)))

\* Enumerate comparing the path as the OS gives it, without .replace('\\','/')
Enumerate_Raw(d, included, kind) ==
    IF included # <<>>
    THEN SelectSeq(Glob(d, kind), LAMBDA p : p \in Range(included))
    ELSE Glob(d, kind)

\* Enumerate filtering also when the included-files list is empty
Enumerate_AlwaysFilter(d, included, kind) ==
    SelectSeq(Glob(d, kind), LAMBDA p : Normalize(p) \in Range(included))

\* pou_files / dut_files / gvl_files of _parse_pous / _parse_duts / _parse_gvls
Enumerate(d, included, kind) ==
    IF included # <<>>
    THEN SelectSeq(Glob(d, kind), LAMBDA p : Normalize(p) \in Range(included))
    ELSE Glob(d, kind)

\* the file at a path
FileAt(d, p) == d[CHOOSE i \in 1..Len(d) : d[i].path = p]

\* lit in t
Contains(t, lit) == \E i \in 1..Len(t) : LitAt(t, i, lit)

\* dut_type of _parse_dut_file
DutType(declaration_text) ==
    IF Contains(declaration_text, KW_TYPE) /\ Contains(declaration_text, KW_ENUM)
    THEN "ENUM" ELSE "STRUCT"

\* what the extraction functions return on a declaration text
ExtractedFrom(declaration_text) ==
    [doc_info         |-> ExtractDocumentation(declaration_text),
     variables        |-> ExtractVariables(declaration_text, FALSE),
     global_variables |-> ExtractVariables(declaration_text, TRUE),
     members          |-> ExtractStructMembers(declaration_text),
     dut_type         |-> DutType(declaration_text)]

\* the same, for each file content (declaration_text is the stripped text of
\* the Declaration element)
Extracted == [c \in FileStates |-> ExtractedFrom(Strip(c.declaration))]

\* the POUInfo / DUTInfo / GVLInfo built from the file f and what was
\* extracted from its declaration text
UnitFrom(kind, f, x) ==
        CASE kind = "POU" ->
               [name |-> GetAttr(f.content.name, "Unknown"),
                type |-> GetAttr(f.content.special_func, "PROGRAM"),
                file_path |-> f.path,
                description |-> x.doc_info.description, author |-> x.doc_info.author,
                version |-> x.doc_info.version, date |-> x.doc_info.date,
                variables |-> x.variables,
                implementation |-> Strip(f.content.implementation),
                comments |-> x.doc_info.comments]
          [] kind = "DUT" ->
               [name |-> GetAttr(f.content.name, "Unknown"), type |-> x.dut_type,
                file_path |-> f.path,
                description |-> x.doc_info.description, author |-> x.doc_info.author,
                version |-> x.doc_info.version,
                members |-> x.members,
                comments |-> x.doc_info.comments]
          [] kind = "GVL" ->
               [name |-> GetAttr(f.content.name, "Unknown"), file_path |-> f.path,
                description |-> x.doc_info.description,
                variables |-> x.global_variables,
                comments |-> x.doc_info.comments]

\* the unit built by _parse_pou_file / _parse_dut_file / _parse_gvl_file
UnitOf(kind, f) == UnitFrom(kind, f, Extracted[f.content])

\* _parse_pou_file / _parse_dut_file / _parse_gvl_file: a unit, None, or an
\* exception that leaves the function
ParseFile(kind, f) ==
    IF f.content.xml = "malformed" THEN [outcome |-> "None"]
    ELSE IF f.content.xml = "unreadable" THEN [outcome |-> "raise", exc |-> "OSError"]
    ELSE IF ~f.content.top THEN [outcome |-> "None"]
    ELSE [outcome |-> "unit", unit |-> UnitOf(kind, f)]

\* a loop that catches ET.ParseError only
CaughtByLoop_ParseErrorOnly(exc) == exc = "ParseError"

\* `except Exception` of the loops over the files
CaughtByLoop(exc) == exc \in {"ParseError", "OSError"}

RECURSIVE ParseLoop(_, _, _, _)

\* one iteration of the loop: o is what parsing the first file gave
ParseLoopStep(d, kind, files, units, o) ==
    IF o.outcome = "unit"
    THEN ParseLoop(d, kind, Tail(files), Append(units, o.unit))
    ELSE IF o.outcome = "None" \/ CaughtByLoop(o.exc)
    THEN ParseLoop(d, kind, Tail(files), units)
    ELSE [units |-> units, raised |-> TRUE]

\* the loop of _parse_pous / _parse_duts / _parse_gvls over the enumerated
\* files: the list after the loop, and whether an exception left the loop
ParseLoop(d, kind, files, units) ==
    IF files = <<>> THEN [units |-> units, raised |-> FALSE]
    ELSE ParseLoopStep(d, kind, files, units, ParseFile(kind, FileAt(d, Head(files))))

\* TwinCATParser._get_project_info
GetProjectInfo(ms, p, du, g) ==
    [name |-> IF ms # <<>> /\ ms[1].parses /\ ms[1].name # ""
              THEN ms[1].name ELSE "Demo TwinCAT Project",
     description |-> "GitHub integration demonstration with TwinCAT3",
     version |-> "1.0.0",
     author |-> "Demo System",
     pou_count |-> Len(p),
     dut_count |-> Len(du),
     gvl_count |-> Len(g)]

----------------------------------------------------------------------------
(* SpecFile: _parse_pou_file, _parse_dut_file and _parse_gvl_file applied *)
(* to one source file                                                      *)

\* the function that parses a file of a kind
ParseFn(kind) ==
    CASE kind = "POU" -> "_parse_pou_file"
      [] kind = "DUT" -> "_parse_dut_file"
      [] kind = "GVL" -> "_parse_gvl_file"

\* a path with the extension of the kind
PathOf(kind) ==
    CASE kind = "POU" -> PATH_A
      [] kind = "DUT" -> PATH_C
      [] kind = "GVL" -> PATH_G

InitFile ==
    /\ src \in {[family |-> "file", content |-> c] : c \in FileStates}
    /\ text = Strip(src.content.declaration)
    /\ call = NoCall
    /\ result = <<>>
    /\ manifests = <<>>
    /\ disk = <<>>
    /\ included_files = <<>>
    /\ pous = <<>>
    /\ duts = <<>>
    /\ gvls = <<>>
    /\ enumerated = [POU |-> <<>>, DUT |-> <<>>, GVL |-> <<>>]
    /\ returned = <<>>
    /\ raised = FALSE
    /\ NoBump

\* pou_info = self._parse_pou_file(pou_file), and the same for the other kinds
CallParseFile(kind) ==
    /\ src.family = "file"
    /\ call = NoCall
    /\ call' = [fn |-> ParseFn(kind), is_global |-> FALSE]
    /\ result' = ParseFile(kind, [path |-> PathOf(kind), content |-> src.content])
    /\ UNCHANGED <<src, text>>
    /\ UNCHANGED scanVars
    /\ UNCHANGED bumpVars

NextFile == \E kind \in UnitKinds : CallParseFile(kind)

SpecFile == InitFile /\ [][NextFile]_vars

\* a call has built a unit from the file
BuiltUnit ==
    /\ src.family = "file"
    /\ call.fn \in {ParseFn(kind) : kind \in UnitKinds}
    /\ result.outcome = "unit"

\* C13: every unit has a non-empty name: the Name attribute of the top-level
\* element, and "Unknown" whenever the source provides no name, a Name
\* attribute that is present but empty included.
C13_NameNeverEmpty ==
    BuiltUnit
    => /\ result.unit.name # ""
       /\ result.unit.name = IF src.content.name \in {<<>>, <<"">>}
                             THEN "Unknown" ELSE src.content.name[1]

\* C16: the subtype of every program unit is PROGRAM, FUNCTION_BLOCK or
\* FUNCTION, and PROGRAM when the element has no SpecialFunc attribute.
C16_PouSubtype ==
    (BuiltUnit /\ call.fn = "_parse_pou_file")
    => /\ result.unit.type \in {"PROGRAM", "FUNCTION_BLOCK", "FUNCTION"}
       /\ src.content.special_func = <<>> => result.unit.type = "PROGRAM"

\* C17: the subtype of every data type is STRUCT or ENUM, and a data type of
\* subtype ENUM has no fields.
C17_EnumHasNoFields ==
    (BuiltUnit /\ call.fn = "_parse_dut_file")
    => /\ result.unit.type \in {"STRUCT", "ENUM"}
       /\ result.unit.type = "ENUM" => result.unit.members = <<>>

\* the attributes of the Documentation record a unit carries besides its
\* description and its comment list
DocAttributes == {"author", "version", "date"}

\* C21: a unit of every kind carries the author, version and date that
\* _extract_documentation yields for its declaration text: whenever one of
\* them is non-empty, the unit built from the file exposes that same value.
C21_FullDocumentation ==
    BuiltUnit
    => \A a \in DocAttributes :
          ExtractDocumentation(text)[a] # <<>>
          => /\ a \in DOMAIN result.unit
             /\ result.unit[a] = ExtractDocumentation(text)[a]

----------------------------------------------------------------------------
(* Spec: one TwinCATParser on one project *)

\* no file at a candidate path
Absent == [xml |-> "absent", top |-> FALSE, name |-> <<>>, special_func |-> <<>>,
           declaration |-> <<>>, implementation |-> <<>>]

\* the disks: every candidate path is absent or holds one of the contents
Disks ==
    {LET present == SelectSeq([i \in 1..Len(CandidatePaths) |-> i],
                              LAMBDA n : c[n] # Absent)
     IN  [k \in 1..Len(present) |->
            [path |-> CandidatePaths[present[k]], content |-> c[present[k]]]] :
     c \in [1..Len(CandidatePaths) -> FileContents \cup {Absent}]}

\* the state after TwinCATParser(project_root)
Init ==
    /\ manifests \in SeqsUpTo(ManifestContents, MaxManifests)
    /\ disk \in Disks
    /\ included_files = GetProjectIncludedFiles(manifests)
    /\ pous = <<>>
    /\ duts = <<>>
    /\ gvls = <<>>
    /\ enumerated = [POU |-> <<>>, DUT |-> <<>>, GVL |-> <<>>]
    /\ returned = <<>>
    /\ raised = FALSE
    /\ NoBump
    /\ src = [family |-> "none"]
    /\ text = <<>>
    /\ call = NoCall
    /\ result = <<>>

\* _parse_pous / _parse_duts / _parse_gvls: the files enumerated and the
\* list after the loop; skipped when an exception has left parse_project
ParseKind(kind, units, skipped) ==
    IF skipped THEN [files |-> enumerated[kind], units |-> units, raised |-> TRUE]
    ELSE [files |-> Enumerate(disk, included_files, kind)]
         @@ ParseLoop(disk, kind, Enumerate(disk, included_files, kind), units)

\* the end of parse_project: p, du and g are what the three steps gave
Return(p, du, g) ==
    /\ pous' = p.units
    /\ duts' = du.units
    /\ gvls' = g.units
    /\ enumerated' = [POU |-> p.files, DUT |-> du.files, GVL |-> g.files]
    /\ raised' = g.raised
    /\ returned' = IF g.raised THEN returned
                   ELSE Append(returned,
                          [pous |-> p.units, duts |-> du.units, gvls |-> g.units,
                           project_info |->
                             GetProjectInfo(manifests, p.units, du.units, g.units)])

ParseGvls(p, du) == Return(p, du, ParseKind("GVL", gvls, du.raised))

ParseDuts(p) == ParseGvls(p, ParseKind("DUT", duts, p.raised))

ParsePous == ParseDuts(ParseKind("POU", pous, FALSE))

\* TwinCATParser.parse_project.  The returned dict holds self.pous, self.duts
\* and self.gvls themselves; returned records their value at the return.
ParseProject ==
    /\ src.family = "none"
    /\ ~raised
    /\ Len(returned) < MaxRuns
    /\ ParsePous
    /\ UNCHANGED <<manifests, disk, included_files>>
    /\ UNCHANGED declVars
    /\ UNCHANGED bumpVars

Next == ParseProject

Spec == Init /\ [][Next]_vars

----------------------------------------------------------------------------
(* Claims on the project scan *)

\* the paths on disk
DiskPaths == {disk[i].path : i \in 1..Len(disk)}

\* the position of a path in the directory order
DiskIndex(p) == CHOOSE i \in 1..Len(disk) : disk[i].path = p

\* the file at the path is well-formed and has its top-level element
WellFormedAt(p) == FileAt(disk, p).content.xml = "ok" /\ FileAt(disk, p).content.top

\* self.pous / self.duts / self.gvls
UnitsOf(kind) ==
    CASE kind = "POU" -> pous
      [] kind = "DUT" -> duts
      [] kind = "GVL" -> gvls

\* q lists distinct paths in directory order
InDiskOrder(q) ==
    \A a, b \in 1..Len(q) : a < b => DiskIndex(q[a]) < DiskIndex(q[b])

\* the normalized Include paths of the manifests that parse
Listed ==
    UNION {{Normalize(c.include) :
              c \in {x \in Range(manifests[i].compile) : x.include # <<>>}} :
           i \in {n \in 1..Len(manifests) : manifests[n].parses}}

\* C1: when the included-files set is non-empty, the files enumerated for each
\* kind are exactly the files found on disk for that kind whose relative
\* path, with backslashes replaced by slashes, is in the set.
C1_FilterByIncluded ==
    (included_files # <<>> /\ returned # <<>>)
    => \A kind \in UnitKinds :
          /\ Range(enumerated[kind])
             = {p \in DiskPaths :
                   /\ EndsWith(p, ExtensionOf(kind))
                   /\ \E j \in 1..Len(included_files) : included_files[j] = Normalize(p)}
          /\ InDiskOrder(enumerated[kind])

\* C1, the case: two program units on disk, the manifest lists one of them
\* (with the other separator), and that one alone is enumerated
C1_Witness ==
    /\ included_files # <<>>
    /\ returned # <<>>
    /\ {PATH_A, PATH_B} \subseteq DiskPaths
    /\ enumerated.POU = <<PATH_B>>

\* C2: whenever a manifest is present and parses, the files enumerated for
\* every kind are exactly the files on disk of that kind that the manifest
\* lists, also when it lists none.
C2_ManifestIntersection ==
    ((\E i \in 1..Len(manifests) : manifests[i].parses) /\ returned # <<>>)
    => \A kind \in UnitKinds :
          Range(enumerated[kind])
          = {p \in DiskPaths : EndsWith(p, ExtensionOf(kind)) /\ Normalize(p) \in Listed}

\* C3: with no manifest, or none that parses, the included-files collection
\* is empty and every kind enumerates all files found for its extension.
C3_NoManifestNoFilter ==
    (\A i \in 1..Len(manifests) : ~manifests[i].parses)
    => /\ included_files = <<>>
       /\ returned # <<>>
          => \A kind \in UnitKinds :
                /\ Range(enumerated[kind])
                   = {p \in DiskPaths : EndsWith(p, ExtensionOf(kind))}
                /\ InDiskOrder(enumerated[kind])

\* C3, the case: manifests are present, none parses, and both program units
\* on disk are enumerated
C3_Witness ==
    /\ manifests # <<>>
    /\ \A i \in 1..Len(manifests) : ~manifests[i].parses
    /\ returned # <<>>
    /\ enumerated.POU = <<PATH_A, PATH_B>>

\* C9: any two runs of parse_project on unchanged files return equal
\* documents, two successive calls on the same parser included.
C9_Idempotent ==
    \A i, j \in 1..Len(returned) : returned[i] = returned[j]

\* C10: parse_project never raises because of a source file; a file that is
\* malformed, unreadable or without its top-level element is absent from the
\* result, every well-formed enumerated file is present, and the result is
\* empty when no file parses.
C10_FailureContained ==
    /\ ~raised
    /\ returned # <<>>
       => \A kind \in UnitKinds :
             /\ \A n \in 1..Len(UnitsOf(kind)) : WellFormedAt(UnitsOf(kind)[n].file_path)
             /\ \A n \in 1..Len(enumerated[kind]) :
                   WellFormedAt(enumerated[kind][n])
                   => \E m \in 1..Len(UnitsOf(kind)) :
                         UnitsOf(kind)[m].file_path = enumerated[kind][n]
    /\ (\A p \in DiskPaths : ~WellFormedAt(p))
       => pous = <<>> /\ duts = <<>> /\ gvls = <<>>
    /\ \A r \in 1..Len(returned) :
          (\A p \in DiskPaths : ~WellFormedAt(p))
          => returned[r].pous = <<>> /\ returned[r].duts = <<>> /\ returned[r].gvls = <<>>

\* C10, the case: an unreadable program unit is enumerated before a
\* well-formed one, and the well-formed one is in the result
C10_Witness ==
    /\ returned # <<>>
    /\ enumerated.POU = <<PATH_A, PATH_B>>
    /\ FileAt(disk, PATH_A).content.xml = "unreadable"
    /\ WellFormedAt(PATH_B)
    /\ \E n \in 1..Len(pous) : pous[n].file_path = PATH_B

----------------------------------------------------------------------------
(* Claims on the returned document and on the manifests *)

\* the dict parse_project returned at its r-th call, as it is now: its 'pous',
\* 'duts' and 'gvls' are self.pous, self.duts and self.gvls themselves, its
\* 'project_info' is a dict of its own
DocumentNow(r) ==
    [pous |-> pous, duts |-> duts, gvls |-> gvls,
     project_info |-> returned[r].project_info]

\* the counts of project_info are the lengths of the three sequences
CountsMatch(doc) ==
    /\ doc.project_info.pou_count = Len(doc.pous)
    /\ doc.project_info.dut_count = Len(doc.duts)
    /\ doc.project_info.gvl_count = Len(doc.gvls)

\* C11: a returned document is never changed after its return, no further
\* parse_project call changes its sequences or its metadata, and its counts
\* always equal the lengths of its sequences.
C11_ReturnedNeverMutated ==
    \A r \in 1..Len(returned) :
        /\ DocumentNow(r) = returned[r]
        /\ CountsMatch(DocumentNow(r))

\* the units of one kind of a document
DocUnits(doc, kind) ==
    CASE kind = "POU" -> doc.pous
      [] kind = "DUT" -> doc.duts
      [] kind = "GVL" -> doc.gvls

\* no value occurs twice in q
NoDuplicates(q) == \A a, b \in 1..Len(q) : a # b => q[a] # q[b]

\* a path below the project root, not an absolute one
IsRelative(p) == p \in DiskPaths /\ p[1] \notin {"/", "\\"}

\* C12: in every returned document, after any number of parse_project calls,
\* every unit's path is relative to the project root and no two units of one
\* kind have the same path.
C12_UniqueRelativePaths ==
    \A r \in 1..Len(returned) : \A kind \in UnitKinds :
        /\ \A n \in 1..Len(DocUnits(returned[r], kind)) :
              IsRelative(DocUnits(returned[r], kind)[n].file_path)
        /\ NoDuplicates([n \in 1..Len(DocUnits(returned[r], kind)) |->
                           DocUnits(returned[r], kind)[n].file_path])

\* the manifests that parse, in glob order
Parsing(ms) == SelectSeq(ms, LAMBDA m : m.parses)

\* C18: a manifest that fails to parse contributes nothing and ends nothing:
\* the included files are exactly the include paths of the manifests that
\* parse, as if the failing manifests were not there.
C18_ManifestFailurePerManifest ==
    /\ Range(included_files) = Listed
    /\ included_files = GetProjectIncludedFiles(Parsing(manifests))

\* C18, the case: a manifest that fails to parse comes before one that parses
\* and lists files, and those files are included
C18_Witness ==
    /\ \E i, j \in 1..Len(manifests) :
          /\ i < j
          /\ ~manifests[i].parses
          /\ manifests[j].parses
          /\ manifests[j].compile # <<>>
    /\ included_files # <<>>

\* C19: Compile entries are recognized in the namespaced and in the bare
\* form, every backslash of a reference becomes a slash, and the collection
\* holds no path twice and no path with a backslash.
C19_BothFormsNormalizedUnique ==
    /\ \A i \in 1..Len(manifests) :
          manifests[i].parses
          => \A c \in Range(manifests[i].compile) :
                c.include # <<>>
                => \E j \in 1..Len(included_files) :
                      included_files[j] = Normalize(c.include)
    /\ NoDuplicates(included_files)
    /\ \A j \in 1..Len(included_files) :
          \A k \in 1..Len(included_files[j]) : included_files[j][k] # "\\"

\* C19, the case: one file listed in the bare form with a backslash and in
\* the namespaced form with a slash is included once, with the slash
C19_Witness ==
    /\ \E i \in 1..Len(manifests) :
          /\ manifests[i].parses
          /\ \E c, e \in Range(manifests[i].compile) :
                /\ ~c.ns /\ c.include = INC_B_BACK
                /\ e.ns /\ e.include = INC_B_FWD
    /\ Cardinality({j \in 1..Len(included_files) : included_files[j] = INC_B_FWD}) = 1

----------------------------------------------------------------------------
(* The version bump script (.github/scripts/bump_version.py) *)

MaxBumps == 2

DigitSeq == <<"0","1","2","3","4","5","6","7","8","9">>

RECURSIVE StrOf(_)
\* str(n) of a natural number
StrOf(n) ==
    IF n < 10 THEN <<DigitSeq[n + 1]>>
    ELSE StrOf(n \div 10) \o <<DigitSeq[(n % 10) + 1]>>

RECURSIVE IntOf(_)
\* int(x) of a run of digits
IntOf(x) ==
    IF x = <<>> THEN 0
    ELSE 10 * IntOf(SubSeq(x, 1, Len(x) - 1))
         + (CHOOSE d \in 0..9 : DigitSeq[d + 1] = x[Len(x)])

\* \d+ (greedy) from position i: the first position that holds no digit
DigitsEnd(t, i) ==
    IF i > Len(t) THEN i
    ELSE FirstFrom(i, Len(t), [j \in i..Len(t) |-> t[j] \notin DigitChars])

\* (\d+)\. with the digits from i to e: the position after the dot, 0 when
\* it does not match
GroupDot(t, i, e) ==
    IF e > i /\ e <= Len(t) /\ t[e] = "." THEN e + 1 ELSE 0

\* (\d+)\. from position i, 0 standing for no match so far
NextGroup(t, i) == IF i = 0 THEN 0 ELSE GroupDot(t, i, DigitsEnd(t, i))

\* match.groups() of ^(\d+)\.(\d+)\.(\d+)\.(\d+)$ with the groups starting
\* at 1, s2, s3 and s4; <<>> when the pattern does not match
VersionGroups(t, s2, s3, s4) ==
    IF s4 = 0 \/ s4 > Len(t) \/ DigitsEnd(t, s4) # Len(t) + 1 THEN <<>>
    ELSE <<Slice(t, 1, s2 - 1), Slice(t, s2, s3 - 1), Slice(t, s3, s4 - 1),
           Slice(t, s4, Len(t) + 1)>>

VersionMatchFrom(t, s2, s3) == VersionGroups(t, s2, s3, NextGroup(t, s3))

\* re.match(version_pattern, version_text).  The text is stripped, so that
\* $ stands at its end only.
VersionMatch(t) == VersionMatchFrom(t, NextGroup(t, 1), NextGroup(t, NextGroup(t, 1)))

\* the end of read_version: the tuple, or ValueError
VersionOf(groups) ==
    IF groups = <<>> THEN [outcome |-> "raise", exc |-> "ValueError"]
    ELSE [outcome |-> "return", value |-> [k \in 1..4 |-> IntOf(groups[k])]]

\* VersionBumper.read_version
ReadVersion(file) ==
    IF file = <<>> THEN [outcome |-> "raise", exc |-> "FileNotFoundError"]
    ELSE VersionOf(VersionMatch(Strip(file[1])))

\* the text VersionBumper.write_version writes
WriteVersion(v) ==
    <<StrOf(v[1]) \o <<".">> \o StrOf(v[2]) \o <<".">> \o StrOf(v[3]) \o <<".">> \o StrOf(v[4])
      \o <<"\n">>>>

BR_main == <<"m","a","i","n">>
BR_master == <<"m","a","s","t","e","r">>
BR_release == <<"r","e","l","e","a","s","e","/">>
BR_development == <<"d","e","v","e","l","o","p","m","e","n","t">>
BR_develop == <<"d","e","v","e","l","o","p">>
BR_dev == <<"d","e","v">>
BR_hotfix == <<"h","o","t","f","i","x","/">>
BR_fix == <<"f","i","x","/">>
BR_feature == <<"f","e","a","t","u","r","e","/">>
BR_feat == <<"f","e","a","t","/">>

\* VersionBumper._auto_detect_bump_type
AutoDetectBumpType(branch) ==
    IF Lower(branch) \in {BR_main, BR_master} THEN "minor"
    ELSE IF StartsWith(Lower(branch), BR_release) THEN "minor"
    ELSE IF Lower(branch) \in {BR_development, BR_develop, BR_dev} THEN "patch"
    ELSE IF StartsWith(Lower(branch), BR_hotfix) \/ StartsWith(Lower(branch), BR_fix)
    THEN "build"
    ELSE IF StartsWith(Lower(branch), BR_feature) \/ StartsWith(Lower(branch), BR_feat)
    THEN "build"
    ELSE "build"

\* the chain without the resets
ApplyBump_NoReset(v, bump_type) ==
    CASE bump_type = "major" ->
           [outcome |-> "return", value |-> <<v[1] + 1, v[2], v[3], v[4]>>]
      [] bump_type = "minor" ->
           [outcome |-> "return", value |-> <<v[1], v[2] + 1, v[3], v[4]>>]
      [] bump_type = "patch" ->
           [outcome |-> "return", value |-> <<v[1], v[2], v[3] + 1, v[4]>>]
      [] bump_type = "build" ->
           [outcome |-> "return", value |-> <<v[1], v[2], v[3], v[4] + 1>>]
      [] OTHER -> [outcome |-> "raise", exc |-> "ValueError"]

\* the if / elif chain of bump_version on the current version
ApplyBump(v, bump_type) ==
    CASE bump_type = "major" ->
           [outcome |-> "return", value |-> <<v[1] + 1, 0, 0, 0>>]
      [] bump_type = "minor" ->
           [outcome |-> "return", value |-> <<v[1], v[2] + 1, 0, 0>>]
      [] bump_type = "patch" ->
           [outcome |-> "return", value |-> <<v[1], v[2], v[3] + 1, 0>>]
      [] bump_type = "build" ->
           [outcome |-> "return", value |-> <<v[1], v[2], v[3], v[4] + 1>>]
      [] OTHER -> [outcome |-> "raise", exc |-> "ValueError"]

\* bump_version after read_version
BumpFrom(current, bump_type, branch) ==
    IF current.outcome = "raise" THEN current
    ELSE ApplyBump(current.value,
                   IF bump_type = "auto" THEN AutoDetectBumpType(branch) ELSE bump_type)

\* VersionBumper.bump_version: the new version, or the exception raised
BumpVersion(file, bump_type, branch) ==
    BumpFrom(ReadVersion(file), bump_type, branch)

\* is_fork_pr
IsForkPr(env) ==
    /\ env.GITHUB_EVENT_NAME = "pull_request"
    /\ env.GITHUB_EVENT_PULL_REQUEST_HEAD_REPO_FULL_NAME # ""
    /\ env.GITHUB_EVENT_PULL_REQUEST_HEAD_REPO_FULL_NAME # env.GITHUB_REPOSITORY

\* choices of --bump-type
BumpChoices == {"major", "minor", "patch", "build", "auto"}

\* main from the fork check on: the exit status and the VERSION file
\* afterwards; new_version is what bump_version gives
MainFrom(file, env, args, new_version) ==
    IF ~args.skip_fork_check /\ IsForkPr(env)
    THEN [outcome |-> "exit", code |-> 0, file |-> file]
    ELSE IF new_version.outcome = "raise"
    THEN [outcome |-> "exit", code |-> 1, file |-> file]
    ELSE IF args.dry_run
    THEN [outcome |-> "exit", code |-> 0, file |-> file]
    ELSE [outcome |-> "exit", code |-> 0, file |-> WriteVersion(new_version.value)]

\* main: parser.parse_args() ends the script with status 2 on a bump type
\* that is not among the choices
MainOf(file, env, args) ==
    IF args.bump_type \notin BumpChoices
    THEN [outcome |-> "exit", code |-> 2, file |-> file]
    ELSE MainFrom(file, env, args, BumpVersion(file, args.bump_type, args.branch))

\* VERSION files: written by write_version, with two digits, without the
\* final newline and with a leading zero, between spaces, with three
\* components, with a suffix, empty
VersionTexts ==
    {<<"1",".","2",".","3",".","4","\n">>,
     <<"0",".","9",".","0",".","1","0","\n">>,
     <<"0","1",".","0",".","0",".","9">>,
     <<" ","2",".","0",".","0",".","0"," ","\n">>,
     <<"1",".","0",".","0","\n">>,
     <<"1",".","0",".","0",".","0","_","r","c","\n">>,
     <<>>}

VersionFiles == {<<>>} \cup {<<t>> : t \in VersionTexts}

\* branch names
Branches ==
    {BR_main, <<"M","a","s","t","e","r">>, BR_release \o <<"1">>,
     BR_development, <<"D","e","v","e","l","o","p">>, BR_dev,
     BR_hotfix \o <<"x">>, BR_fix \o <<"x">>, BR_feature \o <<"x">>,
     BR_feat \o <<"x">>, <<"w","i","p">>}

\* bump types: the choices, and one that is none of them
BumpTypes == BumpChoices \cup {"release"}

\* the environments of a push, of a pull request of the repository itself
\* and of a pull request of a fork
Environs ==
    {[GITHUB_EVENT_NAME |-> e, GITHUB_REPOSITORY |-> "o/r",
      GITHUB_EVENT_PULL_REQUEST_HEAD_REPO_FULL_NAME |-> h] :
     e \in {"push", "pull_request"}, h \in {"", "o/r", "f/r"}}

InitBump ==
    /\ version_file \in VersionFiles
    /\ environ \in Environs
    /\ entered = NotEntered
    /\ status = [outcome |-> "none"]
    /\ bump_runs = 0
    /\ src = [family |-> "none"]
    /\ text = <<>>
    /\ call = NoCall
    /\ result = <<>>
    /\ manifests = <<>>
    /\ disk = <<>>
    /\ included_files = <<>>
    /\ pous = <<>>
    /\ duts = <<>>
    /\ gvls = <<>>
    /\ enumerated = [POU |-> <<>>, DUT |-> <<>>, GVL |-> <<>>]
    /\ returned = <<>>
    /\ raised = FALSE

\* the arguments of the script
MainArgs ==
    [bump_type : BumpTypes, branch : Branches,
     dry_run : BOOLEAN, skip_fork_check : BOOLEAN]

\* the arguments of bump_version called on its own
BumpArgs ==
    {[bump_type |-> bump_type, branch |-> branch] :
     bump_type \in BumpTypes, branch \in Branches}

\* the arguments of an entry: any at the first, and at a later one those of
\* the first again, as a workflow step gives them
ArgsOf(fn, any) ==
    IF entered = NotEntered THEN any
    ELSE IF entered.fn = fn THEN {entered.args} ELSE {}

\* sys.exit(main()) with the given arguments
Main(args) ==
    /\ bump_runs < MaxBumps
    /\ entered' = [fn |-> "main", args |-> args, file |-> version_file]
    /\ status' = [outcome |-> "exit", code |-> MainOf(version_file, environ, args).code]
    /\ version_file' = MainOf(version_file, environ, args).file
    /\ bump_runs' = bump_runs + 1
    /\ UNCHANGED environ
    /\ UNCHANGED <<scanVars, declVars>>

\* VersionBumper().bump_version(bump_type, branch), called on its own
CallBumpVersion(args) ==
    /\ bump_runs < MaxBumps
    /\ entered' = [fn |-> "bump_version", args |-> args, file |-> version_file]
    /\ status' = BumpVersion(version_file, args.bump_type, args.branch)
    /\ bump_runs' = bump_runs + 1
    /\ UNCHANGED <<version_file, environ>>
    /\ UNCHANGED <<scanVars, declVars>>

NextBump ==
    \/ \E args \in ArgsOf("main", MainArgs) : Main(args)
    \/ \E args \in ArgsOf("bump_version", BumpArgs) : CallBumpVersion(args)

SpecBump == InitBump /\ [][NextBump]_vars

----------------------------------------------------------------------------
(* Claims on the version bump script *)

\* the version the VERSION file held when the script was entered
Current == ReadVersion(entered.file).value

\* bump_version, called on its own, has returned a version
BumpReturned == entered.fn = "bump_version" /\ status.outcome = "return"

\* main has skipped the bump for a fork pull request
ForkSkipped ==
    /\ entered.fn = "main"
    /\ entered.args.bump_type \in BumpChoices
    /\ ~entered.args.skip_fork_check
    /\ IsForkPr(environ)

\* main has written a version
Wrote ==
    /\ entered.fn = "main"
    /\ status.code = 0
    /\ ~entered.args.dry_run
    /\ ~ForkSkipped

\* the version the bump gave: returned, or written to the VERSION file
NewVersion ==
    IF entered.fn = "main" THEN ReadVersion(version_file).value ELSE status.value

\* the development branches and the main branches
IsDevelopment(branch) == Lower(branch) \in {BR_development, BR_develop, BR_dev}

IsMain(branch) == Lower(branch) \in {BR_main, BR_master}

\* the version with the component k incremented, those to its right reset
\* and those to its left kept
Incremented(v, k) ==
    [i \in 1..4 |-> IF i < k THEN v[i] ELSE IF i = k THEN v[i] + 1 ELSE 0]

\* the place of the component a bump type names
ComponentOf(bump_type) ==
    CASE bump_type = "major" -> 1
      [] bump_type = "minor" -> 2
      [] bump_type = "patch" -> 3
      [] bump_type = "build" -> 4

\* C22: with automatic detection of the bump type, a development branch
\* (development, develop, dev) gets a build bump: only the fourth component
\* is incremented; a bump of the major, minor or patch component is given to
\* a main branch only.
C22_DevelopmentBumpsBuild ==
    ((BumpReturned \/ Wrote) /\ entered.args.bump_type = "auto")
    => /\ IsDevelopment(entered.args.branch)
          => NewVersion = Incremented(Current, 4)
       /\ NewVersion # Incremented(Current, 4) => IsMain(entered.args.branch)

\* the bump type applied: the one given, or the one detected from the branch
Selected ==
    IF entered.args.bump_type = "auto"
    THEN AutoDetectBumpType(entered.args.branch)
    ELSE entered.args.bump_type

\* C27: a bump increments the selected component by 1, resets every
\* component to its right to 0 and keeps every component to its left; an
\* unknown bump type is an error; with an unknown bump type, in dry-run mode
\* and for a detected fork pull request the VERSION file is left unchanged.
C27_BumpAndFrame ==
    /\ (BumpReturned \/ Wrote)
       => NewVersion = Incremented(Current, ComponentOf(Selected))
    /\ (entered.fn = "bump_version" /\ entered.args.bump_type \notin BumpChoices)
       => status.outcome = "raise"
    /\ (entered.fn = "main" /\ entered.args.bump_type \notin BumpChoices)
       => status.code # 0
    /\ (entered.fn = "bump_version"
        \/ (entered.fn = "main"
            /\ (\/ entered.args.bump_type \notin BumpChoices
                \/ entered.args.dry_run
                \/ ForkSkipped)))
       => version_file = entered.file

\* main has written 1.3.0.0 over 1.2.3.4 for a minor bump, and the second
\* entry, in the same way, 1.4.0.0
C27_Witness ==
    /\ Wrote
    /\ bump_runs = 2
    /\ entered.args.bump_type = "minor"
    /\ entered.file = WriteVersion(<<1, 3, 0, 0>>)
    /\ version_file = WriteVersion(<<1, 4, 0, 0>>)

====
